---- MODULE Spec2Model ----
(***************************************************************************)
(* Model of content.js of anti-chatice: a content script that hides the    *)
(* elements of a page matching a list of rules (hideRules), once over the  *)
(* whole document and then for every subtree a MutationObserver reports.   *)
(*                                                                         *)
(* Strings the code searches in (href, text, title, attribute values) are  *)
(* sequences of one-character strings; tag names, class names and          *)
(* selectors are atoms.                                                    *)
(***************************************************************************)
EXTENDS Integers, Sequences, FiniteSets, TLC

\* ---------------------------------------------------------------- bounds
NumNodes == 2        \* elements of the page besides document.body
MaxRules == 2        \* length of hideRules

Body == 0
TextNode == 0 - 1    \* an added node that is a text node, not an element
Nodes == 1 .. NumNodes
Elements == {Body} \cup Nodes
NoAttr == <<"#absent">>   \* getAttribute(...) === null, no such attribute

\* ------------------------------------------------------------ the inputs
\* The address of the page, against which relative links are resolved.
BaseURL == <<":", "x", "/", "q", "/">>

Elem(tag, cls, href, text, title, area) ==
  [tagName |-> tag, classList |-> cls, href |-> href, text |-> text,
   title |-> title, area |-> area]

BodyElem == Elem("BODY", {}, NoAttr, <<>>, <<>>, NoAttr)

\* The kinds of element a page of the model is made of, outermost first: an
\* empty span, a div and a span with text, class and data-area, and a
\* relative link.
ElemKinds ==
  << Elem("SPAN", {},                  NoAttr,        <<>>,         <<>>,    NoAttr),
     Elem("DIV",  {<<"c">>},           NoAttr,        <<"Y", "b">>, <<>>,    <<"s">>),
     Elem("SPAN", {<<"m", ":", "f">>}, NoAttr,        <<"Y", "b">>, <<"t">>, <<"s", "x">>),
     Elem("A",    {<<"c">>},           <<"p", " ">>,  <<>>,         <<>>,    NoAttr) >>

Rule(type, selector, attr, value) ==
  [type |-> type, selector |-> selector, attr |-> attr, value |-> value]

\* The rules hideRules is made of: one of each type, a class name that is
\* no CSS identifier, a link keyword with a space, and an unknown type.
RulePool ==
  << Rule("class",     "", "", <<"c">>),
     Rule("class",     "", "", <<"m", ":", "f">>),
     Rule("href",      "", "", <<"q">>),
     Rule("href",      "", "", <<" ">>),
     Rule("content",   "span", "", <<"y", "b">>),
     Rule("attribute", "", "data-area", <<"s">>),
     Rule("regex",     "span", "data-area", <<"Y", "b">>) >>

\* ------------------------------------------------------- string helpers
\* String.prototype.includes: s contains sub ("" is contained in anything).
Includes(s, sub) ==
  \E i \in 0 .. (Len(s) - Len(sub)) : SubSeq(s, i + 1, i + Len(sub)) = sub

LowerChar(c) ==
  CASE c = "B" -> "b" [] c = "Y" -> "y" [] c = "T" -> "t" [] c = "S" -> "s"
    [] c = "Q" -> "q" [] c = "X" -> "x" [] c = "P" -> "p" [] OTHER -> c

\* String.prototype.toLowerCase
toLowerCase(s) == [i \in 1 .. Len(s) |-> LowerChar(s[i])]

\* String.prototype.toUpperCase on the tag names and selectors of the model
toUpperCase(t) ==
  CASE t = "span" -> "SPAN" [] t = "div" -> "DIV" [] t = "a" -> "A"
    [] t = "body" -> "BODY" [] OTHER -> t

\* A JavaScript string used as a condition: the empty string is falsy.
Truthy(s) == s # <<>>

\* ----------------------------------------------------------------- state
VARIABLES
  ruleIx,        \* the rules of config.js, by their places in RulePool
  kind,          \* the kind of every element, by its place in ElemKinds
  textAdded,     \* the elements the page has put a text node into
  children,      \* the element children of every element, in order
  bodyPresent,   \* document.body is not null
  readyState,    \* document.readyState: "loading" or "complete"
  pc,            \* position of the script: "start", "observe", "done", "crashed"
  listener,      \* hideAllElements is registered for DOMContentLoaded
  observing,     \* observer.observe(document.body, ...) has succeeded
  hidden,        \* elements whose style.display is 'none'
  queue,         \* mutation records queued for the observer, not yet delivered
  thrown,        \* the exceptions that left the script or one of its callbacks
  sweepCount,    \* calls of hideAllElements so far
  observeCount,  \* successful calls of observer.observe so far
  lastCalls      \* the calls of hideElementsInNode the latest step made

vars == <<ruleIx, kind, textAdded, children, bodyPresent, readyState, pc,
          listener, observing, hidden, queue, thrown, sweepCount,
          observeCount, lastCalls>>

\* The text a text node inserted by the page carries.
InsertedText == <<"y", "b">>

\* The global rule list of config.js, read-only.
hideRules == [i \in 1 .. Len(ruleIx) |-> RulePool[ruleIx[i]]]

\* The tag, classes and attributes of every element.
elem == [n \in Elements |-> IF n = Body THEN BodyElem ELSE ElemKinds[kind[n]]]

\* The text nodes an element has as direct children.
ownText == [n \in Elements |-> IF n \in textAdded THEN InsertedText ELSE elem[n].text]

\* ------------------------------------------------------------- the tree
Range(f) == {f[i] : i \in DOMAIN f}

RECURSIVE Descendants(_)
\* The proper descendants of element n.
Descendants(n) ==
  Range(children[n]) \cup UNION {Descendants(k) : k \in Range(children[n])}

\* The elements document.querySelectorAll can see (the html element, which
\* carries no class, attribute or text of its own, is left out).
InDocument == IF bodyPresent THEN {Body} \cup Descendants(Body) ELSE {}

Parented == UNION {Range(children[n]) : n \in Elements}

\* Roots of subtrees the page has built but not yet inserted.
DetachedRoots == Nodes \ Parented

RECURSIVE textContent(_)
RECURSIVE ConcatText(_)
ConcatText(kids) ==
  IF kids = <<>> THEN <<>> ELSE textContent(Head(kids)) \o ConcatText(Tail(kids))

\* Node.textContent: the text of the element's subtree in document order.
textContent(n) == ownText[n] \o ConcatText(children[n])

\* HTMLAnchorElement.href: the link target as an address, that is resolved
\* against the page address when relative and with its spaces percent-encoded
\* ("%" stands for "%20"); the empty string for an anchor without href.
IsAbsolute(u) == Len(u) > 0 /\ u[1] = ":"
PercentEncode(u) == [i \in 1 .. Len(u) |-> IF u[i] = " " THEN "%" ELSE u[i]]
ResolveURL(u) ==
  IF IsAbsolute(u) THEN PercentEncode(u) ELSE BaseURL \o PercentEncode(u)
href(n) == IF elem[n].href = NoAttr THEN <<>> ELSE ResolveURL(elem[n].href)

\* Element.getAttribute for the attributes of the model.
getAttribute(n, attr) ==
  CASE attr = "data-area" -> elem[n].area
    [] attr = "href" -> elem[n].href
    [] OTHER -> NoAttr

\* -------------------------------------------------------- querySelectorAll
\* Characters that end a CSS identifier or a quoted selector string.
SelectorSpecials == {":", "\"", "[", "]"}
HasSpecial(s) == \E i \in 1 .. Len(s) : s[i] \in SelectorSpecials
TypeSelectors == {"span", "SPAN", "div", "DIV", "a", "A", "body", "BODY"}
AttrNames == {"data-area", "href"}

\* The outcome of a query, and of the functions built on one: the elements
\* to hide, or a SyntaxError thrown before anything was selected.
Found(set) == [hide |-> set, threw |-> FALSE]
SyntaxError == [hide |-> {}, threw |-> TRUE]

\* scope.querySelectorAll(`.${className}`)
QueryClass(scope, className) ==
  IF className = <<>> \/ HasSpecial(className) THEN SyntaxError
  ELSE Found({n \in scope : className \in elem[n].classList})

\* scope.querySelectorAll(`a[href*="${keyword}"]`): the href ATTRIBUTE as
\* written, compared case-sensitively; an empty keyword selects nothing.
QueryHref(scope, keyword) ==
  IF HasSpecial(keyword) THEN SyntaxError
  ELSE Found({n \in scope : /\ elem[n].tagName = "A"
                            /\ elem[n].href # NoAttr
                            /\ keyword # <<>>
                            /\ Includes(elem[n].href, keyword)})

\* scope.querySelectorAll(selector) for the selector of a content/title rule:
\* a type selector (matched against the tag ignoring case) or "*".
QuerySelector(scope, selector) ==
  IF selector \notin TypeSelectors \cup {"*"} THEN SyntaxError
  ELSE Found({n \in scope : selector = "*" \/ toUpperCase(selector) = elem[n].tagName})

\* scope.querySelectorAll(`[${attr}="${value}"]`)
QueryAttribute(scope, attr, value) ==
  IF attr \notin AttrNames \/ HasSpecial(value) THEN SyntaxError
  ELSE Found({n \in scope : getAttribute(n, attr) # NoAttr /\ getAttribute(n, attr) = value})

\* ------------------------------------------------------------ content.js
\* hideElement resetting the display of every other element.
hideElement_Only(h, elements) == elements

\* hideElement toggling the display instead of setting it.
hideElement_Toggle(h, elements) == (h \ elements) \cup (elements \ h)

\* hideElement hiding the parent of the element along with it.
hideElement_WithParent(h, elements) ==
  h \cup elements \cup {p \in Elements : Range(children[p]) \cap elements # {}}

\* hideElement on each of `elements`, h being the elements hidden so far:
\* element.style.display = 'none'.
hideElement(h, elements) == h \cup elements

\* Each hideBy* is given the elements its query runs over and yields the
\* elements on which hideElement is called.
hideByClass(scope, className) == QueryClass(scope, className)

hideByHref(scope, keyword) == QueryHref(scope, keyword)

hideByContent(scope, selector, keyword) ==
  LET q == QuerySelector(scope, selector) IN
  IF q.threw THEN q
  ELSE Found({el \in q.hide : /\ Truthy(textContent(el))
                              /\ Includes(toLowerCase(textContent(el)), toLowerCase(keyword))})

hideByTitle(scope, selector, keyword) ==
  LET q == QuerySelector(scope, selector) IN
  IF q.threw THEN q
  ELSE Found({el \in q.hide : /\ Truthy(elem[el].title)
                              /\ Includes(toLowerCase(elem[el].title), toLowerCase(keyword))})

hideByAttribute(scope, attr, value) == QueryAttribute(scope, attr, value)

\* applyHideRule with its last branch taken for every remaining type.
applyHideRule_DefaultBranch(rule) ==
  CASE rule.type = "class" -> hideByClass(InDocument, rule.value)
    [] rule.type = "href" -> hideByHref(InDocument, rule.value)
    [] rule.type = "attribute" -> hideByAttribute(InDocument, rule.attr, rule.value)
    [] rule.type = "title" -> hideByTitle(InDocument, rule.selector, rule.value)
    [] OTHER -> hideByContent(InDocument, rule.selector, rule.value)

applyHideRule(rule) ==
  CASE rule.type = "class" -> hideByClass(InDocument, rule.value)
    [] rule.type = "href" -> hideByHref(InDocument, rule.value)
    [] rule.type = "content" -> hideByContent(InDocument, rule.selector, rule.value)
    [] rule.type = "title" -> hideByTitle(InDocument, rule.selector, rule.value)
    [] rule.type = "attribute" -> hideByAttribute(InDocument, rule.attr, rule.value)
    [] OTHER -> Found({})

\* The values matchesRule returns: the booleans, and the empty string that
\* `a && text && b` yields when text is empty.
JsBoolean(b) == IF b THEN "true" ELSE "false"
EmptyString == ""
ToBoolean(v) == v = "true"

\* a && text && b, text being a string.
AndTextAnd(a, text, b) ==
  IF ~a THEN "false" ELSE IF ~Truthy(text) THEN EmptyString ELSE JsBoolean(b)

\* matchesRule comparing text and keyword as written (no toLowerCase).
matchesRule_CaseSensitive(node, rule) ==
  CASE rule.type = "class" -> JsBoolean(rule.value \in elem[node].classList)
    [] rule.type = "href" ->
         JsBoolean(elem[node].tagName = "A" /\ Includes(href(node), rule.value))
    [] rule.type = "content" ->
         AndTextAnd(toUpperCase(elem[node].tagName) = toUpperCase(rule.selector),
                    textContent(node),
                    Includes(textContent(node), rule.value))
    [] rule.type = "title" ->
         AndTextAnd(toUpperCase(elem[node].tagName) = toUpperCase(rule.selector),
                    elem[node].title,
                    Includes(elem[node].title, rule.value))
    [] rule.type = "attribute" ->
         JsBoolean(getAttribute(node, rule.attr) # NoAttr
                   /\ getAttribute(node, rule.attr) = rule.value)
    [] OTHER -> "false"

matchesRule(node, rule) ==
  CASE rule.type = "class" -> JsBoolean(rule.value \in elem[node].classList)
    [] rule.type = "href" ->
         JsBoolean(elem[node].tagName = "A" /\ Includes(href(node), rule.value))
    [] rule.type = "content" ->
         AndTextAnd(toUpperCase(elem[node].tagName) = toUpperCase(rule.selector),
                    textContent(node),
                    Includes(toLowerCase(textContent(node)), toLowerCase(rule.value)))
    [] rule.type = "title" ->
         AndTextAnd(toUpperCase(elem[node].tagName) = toUpperCase(rule.selector),
                    elem[node].title,
                    Includes(toLowerCase(elem[node].title), toLowerCase(rule.value)))
    [] rule.type = "attribute" ->
         JsBoolean(getAttribute(node, rule.attr) # NoAttr
                   /\ getAttribute(node, rule.attr) = rule.value)
    [] OTHER -> "false"

\* hideRules.some(...): the callback's result is taken as a condition.
shouldHideNode(node) ==
  \E i \in 1 .. Len(hideRules) : ToBoolean(matchesRule(node, hideRules[i]))

\* The forEach body querying the document instead of the node.
hideDescendants_WholeDocument(node, rule) ==
  CASE rule.type = "class" -> QueryClass(InDocument, rule.value)
    [] rule.type = "href" -> QueryHref(InDocument, rule.value)
    [] rule.type = "content" -> hideByContent(InDocument, rule.selector, rule.value)
    [] rule.type = "title" -> hideByTitle(InDocument, rule.selector, rule.value)
    [] rule.type = "attribute" -> QueryAttribute(InDocument, rule.attr, rule.value)
    [] OTHER -> Found({})

\* The body of the forEach of hideElementsInNode for one rule.
hideDescendants(node, rule) ==
  CASE rule.type = "class" -> QueryClass(Descendants(node), rule.value)
    [] rule.type = "href" -> QueryHref(Descendants(node), rule.value)
    [] rule.type = "content" -> hideByContent(Descendants(node), rule.selector, rule.value)
    [] rule.type = "title" -> hideByTitle(Descendants(node), rule.selector, rule.value)
    [] rule.type = "attribute" -> QueryAttribute(Descendants(node), rule.attr, rule.value)
    [] OTHER -> Found({})

RECURSIVE ForEachDescendants(_, _, _)
\* hideRules.forEach of hideElementsInNode: the rules are taken in order and
\* the first exception ends the loop, keeping what was hidden before it.
ForEachDescendants(node, rules, acc) ==
  IF rules = <<>> THEN Found(acc)
  ELSE LET r == hideDescendants(node, Head(rules)) IN
       IF r.threw THEN [hide |-> acc, threw |-> TRUE]
       ELSE ForEachDescendants(node, Tail(rules), acc \cup r.hide)

hideElementsInNode(node) ==
  ForEachDescendants(node, hideRules, IF shouldHideNode(node) THEN {node} ELSE {})

RECURSIVE ForEachApply(_, _)
\* hideRules.forEach(applyHideRule), ended by the first exception likewise.
ForEachApply(rules, acc) ==
  IF rules = <<>> THEN Found(acc)
  ELSE LET r == applyHideRule(Head(rules)) IN
       IF r.threw THEN [hide |-> acc, threw |-> TRUE]
       ELSE ForEachApply(Tail(rules), acc \cup r.hide)

hideAllElements == ForEachApply(hideRules, {})

\* --------------------------------------------- the MutationObserver callback
ELEMENT_NODE == 1
TEXT_NODE == 3
nodeType(node) == IF node = TextNode THEN TEXT_NODE ELSE ELEMENT_NODE

ChildListRecord(node) == [type |-> "childList", addedNodes |-> <<node>>]

RECURSIVE AddedElements_AnyType(_)
\* The callback without its test of mutation.type.
AddedElements_AnyType(mutations) ==
  IF mutations = <<>> THEN <<>>
  ELSE SelectSeq(Head(mutations).addedNodes, LAMBDA node : nodeType(node) = ELEMENT_NODE)
       \o AddedElements_AnyType(Tail(mutations))

RECURSIVE AddedElements(_)
\* The nodes on which the callback calls hideElementsInNode, in call order.
AddedElements(mutations) ==
  IF mutations = <<>> THEN <<>>
  ELSE LET mutation == Head(mutations) IN
       (IF mutation.type = "childList"
        THEN SelectSeq(mutation.addedNodes, LAMBDA node : nodeType(node) = ELEMENT_NODE)
        ELSE <<>>) \o AddedElements(Tail(mutations))

RECURSIVE ForEachNode(_, _, _)
\* The two forEach loops of the callback over the nodes they reach: what is
\* hidden, whether an exception ended them, and the calls of
\* hideElementsInNode made, in order.
ForEachNode(nodes, acc, calls) ==
  IF nodes = <<>> THEN [hide |-> acc, threw |-> FALSE, calls |-> calls]
  ELSE LET r == hideElementsInNode(Head(nodes)) IN
       IF r.threw
       THEN [hide |-> acc \cup r.hide, threw |-> TRUE, calls |-> Append(calls, Head(nodes))]
       ELSE ForEachNode(Tail(nodes), acc \cup r.hide, Append(calls, Head(nodes)))

\* The callback with the nodes of a batch taken last to first.
ObserverCallback_Backwards(mutations) ==
  LET nodes == AddedElements(mutations) IN
  ForEachNode([i \in 1 .. Len(nodes) |-> nodes[Len(nodes) + 1 - i]], {}, <<>>)

ObserverCallback(mutations) == ForEachNode(AddedElements(mutations), {}, <<>>)

\* ------------------------------------------------------------------ Init
\* The rule lists of the model: at most MaxRules different rules of the pool,
\* in the order of the pool.
RuleChoices ==
  UNION {{ix \in [1 .. k -> 1 .. Len(RulePool)] :
            \A i, j \in 1 .. k : i < j => ix[i] < ix[j]} : k \in 0 .. MaxRules}

Detached == 0 - 2
\* parent[n] for every node: the body, a node of an outer kind, or none (the
\* root of a subtree the page has built and not inserted yet).
ParentMaps ==
  {par \in [Nodes -> {Body, Detached} \cup Nodes] : \A n \in Nodes : par[n] < n}

\* The pages of the model: NumNodes different kinds of element.
KindChoices ==
  {k \in [Nodes -> 1 .. Len(ElemKinds)] : \A m, n \in Nodes : m < n => k[m] < k[n]}

RECURSIVE SortedSeq(_)
SortedSeq(S) ==
  IF S = {} THEN <<>>
  ELSE LET m == CHOOSE x \in S : \A y \in S : x <= y IN <<m>> \o SortedSeq(S \ {m})

ChildrenOf(par) == [p \in Elements |-> SortedSeq({n \in Nodes : par[n] = p})]

Init ==
  /\ ruleIx \in RuleChoices
  /\ kind \in KindChoices
  /\ textAdded = {}
  /\ readyState \in {"loading", "complete"}
  /\ bodyPresent \in BOOLEAN
  /\ readyState = "complete" => bodyPresent
  /\ \E par \in ParentMaps :
       /\ ~bodyPresent => \A n \in Nodes : par[n] # Body
       /\ children = ChildrenOf(par)
  /\ pc = "start"
  /\ listener = FALSE
  /\ observing = FALSE
  /\ hidden = {}
  /\ queue = <<>>
  /\ thrown = {}
  /\ sweepCount = 0
  /\ observeCount = 0
  /\ lastCalls = <<>>

\* --------------------------------------------------------------- actions
\* Startup without its else branch: the sweep always waits for the listener.
Startup_AlwaysListen ==
  /\ pc = "start"
  /\ listener' = TRUE
  /\ pc' = "observe"
  /\ lastCalls' = <<>>
  /\ UNCHANGED <<ruleIx, kind, textAdded, children, bodyPresent, readyState,
                 observing, hidden, queue, thrown, sweepCount, observeCount>>

\* Lines 111-116: "Hide on load".
Startup ==
  /\ pc = "start"
  /\ IF readyState = "loading"
     THEN /\ listener' = TRUE
          /\ pc' = "observe"
          /\ UNCHANGED <<hidden, thrown, sweepCount>>
     ELSE LET r == hideAllElements IN
          /\ hidden' = hideElement(hidden, r.hide)
          /\ sweepCount' = sweepCount + 1
          /\ thrown' = IF r.threw THEN thrown \cup {"SyntaxError"} ELSE thrown
          /\ pc' = IF r.threw THEN "crashed" ELSE "observe"
          /\ UNCHANGED listener
  /\ lastCalls' = <<>>
  /\ UNCHANGED <<ruleIx, kind, textAdded, children, bodyPresent, readyState,
                 observing, queue, observeCount>>

\* Lines 118-131: "Observe for new elements"; observe(null, ...) is a TypeError.
InstallObserver ==
  /\ pc = "observe"
  /\ IF bodyPresent
     THEN /\ observing' = TRUE
          /\ observeCount' = observeCount + 1
          /\ pc' = "done"
          /\ UNCHANGED thrown
     ELSE /\ thrown' = thrown \cup {"TypeError"}
          /\ pc' = "crashed"
          /\ UNCHANGED <<observing, observeCount>>
  /\ lastCalls' = <<>>
  /\ UNCHANGED <<ruleIx, kind, textAdded, children, bodyPresent, readyState,
                 listener, hidden, queue, sweepCount>>

ScriptIdle == pc \in {"done", "crashed"}

\* The parser creates document.body (a task of its own: no mutation record
\* is waiting for its microtask).
BodyParsed ==
  /\ ScriptIdle
  /\ queue = <<>>
  /\ ~bodyPresent
  /\ bodyPresent' = TRUE
  /\ lastCalls' = <<>>
  /\ UNCHANGED <<ruleIx, kind, textAdded, children, readyState, pc, listener,
                 observing, hidden, queue, thrown, sweepCount, observeCount>>

\* DOMContentLoaded with the listener registered twice (it runs twice).
DOMContentLoaded_Twice ==
  /\ ScriptIdle
  /\ queue = <<>>
  /\ readyState = "loading"
  /\ bodyPresent
  /\ readyState' = "complete"
  /\ IF listener
     THEN LET r == hideAllElements IN
          /\ hidden' = hideElement(hidden, r.hide)
          /\ sweepCount' = sweepCount + 2
          /\ thrown' = IF r.threw THEN thrown \cup {"SyntaxError"} ELSE thrown
     ELSE UNCHANGED <<hidden, sweepCount, thrown>>
  /\ lastCalls' = <<>>
  /\ UNCHANGED <<ruleIx, kind, textAdded, children, bodyPresent, pc, listener,
                 observing, queue, observeCount>>

\* The document finishes loading: the DOMContentLoaded listeners run.
DOMContentLoaded ==
  /\ ScriptIdle
  /\ queue = <<>>
  /\ readyState = "loading"
  /\ bodyPresent
  /\ readyState' = "complete"
  /\ IF listener
     THEN LET r == hideAllElements IN
          /\ hidden' = hideElement(hidden, r.hide)
          /\ sweepCount' = sweepCount + 1
          /\ thrown' = IF r.threw THEN thrown \cup {"SyntaxError"} ELSE thrown
     ELSE UNCHANGED <<hidden, sweepCount, thrown>>
  /\ lastCalls' = <<>>
  /\ UNCHANGED <<ruleIx, kind, textAdded, children, bodyPresent, pc, listener,
                 observing, queue, observeCount>>

\* The page (or the parser) appends a subtree to the body or to an element
\* of an outer kind.
InsertElement(root, target) ==
  /\ ScriptIdle
  /\ root \in DetachedRoots
  /\ target \in InDocument
  /\ target < root
  /\ children' = [children EXCEPT ![target] = Append(@, root)]
  /\ queue' = IF observing THEN Append(queue, ChildListRecord(root)) ELSE queue
  /\ lastCalls' = <<>>
  /\ UNCHANGED <<ruleIx, kind, textAdded, bodyPresent, readyState, pc, listener,
                 observing, hidden, thrown, sweepCount, observeCount>>

\* The page puts a text node into a span of the document that has no text
\* of its own yet.
InsertText(target) ==
  /\ ScriptIdle
  /\ target \in InDocument \cap Nodes
  /\ elem[target].tagName = "SPAN"
  /\ ownText[target] = <<>>
  /\ textAdded' = textAdded \cup {target}
  /\ queue' = IF observing THEN Append(queue, ChildListRecord(TextNode)) ELSE queue
  /\ lastCalls' = <<>>
  /\ UNCHANGED <<ruleIx, kind, children, bodyPresent, readyState, pc, listener,
                 observing, hidden, thrown, sweepCount, observeCount>>

\* Lines 119-129: the host delivers the queued records as one batch.
Deliver ==
  /\ ScriptIdle
  /\ observing
  /\ queue # <<>>
  /\ LET r == ObserverCallback(queue) IN
       /\ hidden' = hideElement(hidden, r.hide)
       /\ lastCalls' = r.calls
       /\ thrown' = IF r.threw THEN thrown \cup {"SyntaxError"} ELSE thrown
  /\ queue' = <<>>
  /\ UNCHANGED <<ruleIx, kind, textAdded, children, bodyPresent, readyState, pc,
                 listener, observing, sweepCount, observeCount>>

Next ==
  \/ Startup
  \/ InstallObserver
  \/ BodyParsed
  \/ DOMContentLoaded
  \/ \E root \in Nodes, target \in Elements : InsertElement(root, target)
  \/ \E target \in Nodes : InsertText(target)
  \/ Deliver

Spec == Init /\ [][Next]_vars

\* ================================================================ claims
\* A step in which hideAllElements runs, and one in which the observer's
\* callback runs on the queued records.
SweepStep == sweepCount' # sweepCount
DeliverStep == queue # <<>> /\ queue' = <<>>

RuleIndices == 1 .. Len(hideRules)
KnownTypes == {"class", "href", "content", "title", "attribute"}
\* The rule's query is a selector syntax error.
Malformed(rule) == applyHideRule(rule).threw

\* C1: when the full sweep completes, every element that is in the document
\* and matches some rule (matchesRule) is hidden.
C1_SweepHidesEveryMatch ==
  [][SweepStep => \A n \in InDocument : shouldHideNode(n) => n \in hidden']_vars

\* C2: when the callback that handles a batch returns, every added element of
\* the batch and every descendant of one that matches some rule is hidden.
C2_BatchHidesEveryMatch ==
  [][(DeliverStep /\ sweepCount >= 1) =>
       \A i \in 1 .. Len(AddedElements(queue)) :
         LET n == AddedElements(queue)[i] IN
         \A d \in {n} \cup Descendants(n) : shouldHideNode(d) => d \in hidden']_vars

\* C3: once the sweep is done and every delivered batch has been handled, no
\* visible element of the document matches a rule.
C3_NoVisibleMatchWhenQuiet ==
  (ScriptIdle /\ sweepCount >= 1 /\ queue = <<>>) =>
    \A n \in InDocument : shouldHideNode(n) => n \in hidden

\* C4: a rule whose query fails does not keep any other rule, before or after
\* it in hideRules, from being applied in the sweep and to every added node.
C4_OtherRulesStillApplied ==
  [][/\ SweepStep =>
          \A i \in RuleIndices :
            ~Malformed(hideRules[i]) => applyHideRule(hideRules[i]).hide \subseteq hidden'
     /\ DeliverStep =>
          \A k \in 1 .. Len(AddedElements(queue)), i \in RuleIndices :
            ~Malformed(hideRules[i]) =>
              hideDescendants(AddedElements(queue)[k], hideRules[i]).hide \subseteq hidden']_vars

\* C5: no failure of a rule is thrown out of the script or a callback, and
\* after a malformed rule the observer is still installed once the script
\* has run.
C5_FailureLeavesObserverInstalled ==
  /\ "SyntaxError" \notin thrown
  /\ (ScriptIdle /\ "TypeError" \notin thrown /\ \E i \in RuleIndices : Malformed(hideRules[i]))
       => observing

\* C7: an element is hidden only if it matches some rule (matchesRule).
C7_OnlyMatchesAreHidden ==
  [][\A n \in hidden' \ hidden : shouldHideNode(n)]_vars

\* C9: whatever the document state at startup, once the script has run the
\* observer is subscribed, exactly once, and it stays subscribed.
C9_SubscribedOnceForGood ==
  ScriptIdle => (observing /\ observeCount = 1)

\* The rules of hideRules whose type is one the code knows, in order.
KnownRules == SelectSeq(hideRules, LAMBDA rule : rule.type \in KnownTypes)
KnownSelf(node) ==
  IF \E i \in 1 .. Len(KnownRules) : ToBoolean(matchesRule(node, KnownRules[i])) THEN {node} ELSE {}
KnownInNode(node) == ForEachDescendants(node, KnownRules, KnownSelf(node))

\* C6: a rule of unknown type hides nothing in the sweep, in the self-check
\* and in the descendant sweep, raises no error, and the sweep and the
\* handling of a node do exactly what they do without that rule.
C6_UnknownTypeIsInert ==
  /\ \A i \in RuleIndices :
       hideRules[i].type \notin KnownTypes =>
         /\ applyHideRule(hideRules[i]) = Found({})
         /\ \A n \in Elements :
              ~ToBoolean(matchesRule(n, hideRules[i])) /\ hideDescendants(n, hideRules[i]) = Found({})
         /\ hideAllElements = ForEachApply(KnownRules, {})
         /\ \A n \in Elements : hideElementsInNode(n) = KnownInNode(n)
  /\ KnownRules = <<>> => (hidden = {} /\ "SyntaxError" \notin thrown)

\* An unknown rule stands next to a rule that has hidden something in the
\* sweep, with the observer running.
C6_Witness ==
  /\ \E i, j \in RuleIndices :
       hideRules[i].type \notin KnownTypes /\ hideRules[j].type \in KnownTypes
  /\ sweepCount = 1
  /\ observing
  /\ hidden # {}
  /\ Descendants(Body) \ hidden # {}

ObserverInstalled == observing' /\ ~observing

\* C8 as stated: the observer is installed only after the sweep has run, on
\* both startup paths.
C8_ObserverOnlyAfterSweep == observing => sweepCount >= 1

\* C8 amended: when the document is not loading at startup the observer is
\* installed after the sweep has completed; when it is loading the observer
\* is installed first, with the sweep left to the DOMContentLoaded listener.
C8_ObserverAfterSweepUnlessLoading ==
  [][ObserverInstalled =>
       IF readyState = "loading"
       THEN sweepCount = 0 /\ listener
       ELSE sweepCount = 1 /\ ~listener /\ "SyntaxError" \notin thrown]_vars

\* The observer was installed after an immediate sweep, and a record of a
\* later insertion is waiting for it.
C8_Witness ==
  /\ observing
  /\ ~listener
  /\ sweepCount = 1
  /\ queue # <<>>

\* C10: hideAllElements runs at most once; it runs at startup when the
\* document is not loading, has run once the document is complete and the
\* script has run, and never runs in the handling of a batch.
C10_SweepRunsExactlyOnce ==
  [][/\ sweepCount' <= 1
     /\ (pc = "start" /\ pc' # "start" /\ readyState # "loading") => sweepCount' = 1
     /\ (ScriptIdle' /\ readyState' = "complete") => sweepCount' = 1
     /\ DeliverStep => sweepCount' = sweepCount]_vars

\* The sweep has run once, from the DOMContentLoaded listener, with the
\* observer installed before it.
C10_Witness ==
  /\ listener
  /\ readyState = "complete"
  /\ sweepCount = 1
  /\ observing
  /\ hidden # {}

\* An element with its descendants, and the elements of the subtrees of a
\* sequence of nodes.
Subtree(node) == {node} \cup Descendants(node)
Subtrees(nodes) == UNION {Subtree(nodes[i]) : i \in DOMAIN nodes}

\* C11: hidden is permanent: whatever step is taken (sweep, batch or a step
\* of the page), every element that is hidden before it is hidden after it.
C11_HiddenIsPermanent == [][hidden \subseteq hidden']_vars

\* A batch has just been handled without an exception: it hid one of its
\* nodes, and an element hidden before it, outside the subtrees it handled,
\* is still hidden.
C11_Witness ==
  /\ lastCalls # <<>>
  /\ thrown = {}
  /\ Range(lastCalls) \cap hidden # {}
  /\ hidden \ Subtrees(lastCalls) # {}

\* C12: idempotence: hiding an element twice is hiding it once, and running
\* the sweep or the callback again on the state it has just produced, the
\* document being the same, changes no element's visibility.
C12_HidingAgainChangesNothing ==
  [][/\ \A n \in Elements :
          hideElement(hideElement(hidden, {n}), {n}) = hideElement(hidden, {n})
     /\ SweepStep => hideElement(hidden', hideAllElements.hide) = hidden'
     /\ DeliverStep => hideElement(hidden', ObserverCallback(queue).hide) = hidden']_vars

\* A batch has just been handled in which an element was hidden twice: as a
\* descendant of an added node and as an added node itself.
C12_Witness ==
  /\ thrown = {}
  /\ \E i, j \in DOMAIN lastCalls :
       /\ i < j
       /\ lastCalls[j] \in hideElementsInNode(lastCalls[i]).hide
       /\ lastCalls[j] \in hideElementsInNode(lastCalls[j]).hide
       /\ lastCalls[j] \in hidden

\* C13: the handling of a batch changes the visibility of added elements and
\* their descendants only: every element outside these subtrees is hidden
\* after the batch iff it was hidden before it.
C13_BatchTouchesInsertedSubtreesOnly ==
  [][DeliverStep =>
       \A m \in Elements \ Subtrees(AddedElements(queue)) :
         (m \in hidden') = (m \in hidden)]_vars

\* A batch has just been handled and hid an element, while an element of the
\* document outside the handled subtrees, which matches a rule both for
\* matchesRule and for the sweep's query, is still visible.
C13_Witness ==
  /\ lastCalls # <<>>
  /\ thrown = {}
  /\ Range(lastCalls) \cap hidden # {}
  /\ \E m \in InDocument \ (hidden \cup Subtrees(lastCalls)) :
       /\ shouldHideNode(m)
       /\ m \in hideAllElements.hide

\* The rules in the opposite order.
ReverseRules == [i \in 1 .. Len(hideRules) |-> hideRules[Len(hideRules) + 1 - i]]

\* C14: rule order is irrelevant: the sweep hides the same elements when the
\* rules are taken in the opposite order, and so does the handling of every
\* added element.
C14_RuleOrderIsIrrelevant ==
  [][/\ SweepStep => hideAllElements.hide = ForEachApply(ReverseRules, {}).hide
     /\ DeliverStep =>
          \A i \in DOMAIN queue : \A n \in Range(queue[i].addedNodes) \cap Nodes :
            hideElementsInNode(n).hide =
              ForEachDescendants(n, ReverseRules,
                                 IF shouldHideNode(n) THEN {n} ELSE {}).hide]_vars

\* A step of the script itself: the script runs, or one of its callbacks.
SystemStep == pc' # pc \/ SweepStep \/ DeliverStep

\* C15: no step of the script changes the tree, an element's attributes or
\* text, or the rules; the sweep and the callback change the visibility of
\* the elements hideElement is called on and of no other, and hideElement on
\* one element changes the visibility of that element only.
C15_HideChangesOnlyItsTarget ==
  [][/\ SystemStep =>
          /\ children' = children
          /\ elem' = elem
          /\ ownText' = ownText
          /\ hideRules' = hideRules
     /\ SweepStep => hidden' \ hidden \subseteq hideAllElements.hide
     /\ DeliverStep => hidden' \ hidden \subseteq ObserverCallback(queue).hide
     /\ \A n \in Elements : hideElement(hidden, {n}) = hidden \cup {n}]_vars

\* An element is hidden while its parent and a sibling of it are visible.
C15_Witness ==
  \E p \in InDocument : \E n, s \in Range(children[p]) :
    /\ n # s
    /\ n \in hidden
    /\ s \notin hidden
    /\ p \notin hidden

RECURSIVE Reported(_)
\* The added nodes of a batch in the order the host reports them: record by
\* record, and within a record in the order of addedNodes.
Reported(mutations) ==
  IF mutations = <<>> THEN <<>>
  ELSE Head(mutations).addedNodes \o Reported(Tail(mutations))

IsPrefix(s, t) == Len(s) <= Len(t) /\ \A i \in 1 .. Len(s) : s[i] = t[i]

\* C16: the callback handles the added elements of a batch in the order the
\* host reports them (all of them unless an exception ends it); records are
\* queued in arrival order and a batch takes the whole queue from its head;
\* no step is both a sweep and the handling of a batch.
C16_HandledInReportedOrder ==
  [][/\ DeliverStep =>
          LET reported == SelectSeq(Reported(queue), LAMBDA n : n \in Nodes) IN
          /\ IsPrefix(lastCalls', reported)
          /\ (\A i \in DOMAIN reported : ~hideElementsInNode(reported[i]).threw)
               => lastCalls' = reported
     /\ (queue' # queue /\ ~DeliverStep) =>
          \E n \in Nodes \cup {TextNode} : queue' = Append(queue, ChildListRecord(n))
     /\ ~(SweepStep /\ DeliverStep)
     /\ SweepStep => queue' = queue]_vars

\* A batch of two added elements has just been handled to its end.
C16_Witness ==
  /\ Len(lastCalls) >= 2
  /\ lastCalls[1] # lastCalls[2]
  /\ thrown = {}
  /\ Range(lastCalls) \cap hidden # {}

\* C17: a batch whose added nodes are all text nodes calls hideElementsInNode
\* on nothing and changes no element's visibility; a batch never handles a
\* node that is not an element; a record that is not a childList record is
\* skipped whatever it carries.
C17_OnlyElementInsertionsTriggerWork ==
  [][/\ DeliverStep =>
          /\ Range(lastCalls') \subseteq Nodes
          /\ (\A i \in DOMAIN queue : Range(queue[i].addedNodes) \subseteq {TextNode})
               => (hidden' = hidden /\ lastCalls' = <<>>)
     /\ \A n \in Nodes :
          LET other == ObserverCallback(<<[type |-> "attributes", addedNodes |-> <<n>>]>>) IN
          other.hide = {} /\ other.calls = <<>>]_vars

\* A batch of text nodes only has just been handled (the observer is
\* installed, nothing was called, nothing is queued), and the element that
\* received the text, which now matches a rule, is still visible.
C17_Witness ==
  /\ observing
  /\ queue = <<>>
  /\ lastCalls = <<>>
  /\ sweepCount = 1
  /\ ~listener
  /\ thrown = {}
  /\ \E n \in textAdded \cap InDocument : shouldHideNode(n) /\ n \notin hidden

\* The elements a batch adds, as the host reports them.
AddedNow == {n \in Nodes : \E i \in DOMAIN queue : n \in Range(queue[i].addedNodes)}

\* The reference of C18 for each kind of rule.
RefMatches(node, rule) ==
  CASE rule.type = "class" -> rule.value \in elem[node].classList
    [] rule.type = "href" ->
         elem[node].tagName = "A" /\ Includes(href(node), rule.value)
    [] rule.type = "content" ->
         /\ toUpperCase(elem[node].tagName) = toUpperCase(rule.selector)
         /\ Includes(toLowerCase(textContent(node)), toLowerCase(rule.value))
    [] rule.type = "title" ->
         /\ toUpperCase(elem[node].tagName) = toUpperCase(rule.selector)
         /\ Includes(toLowerCase(elem[node].title), toLowerCase(rule.value))
    [] rule.type = "attribute" ->
         getAttribute(node, rule.attr) # NoAttr /\ getAttribute(node, rule.attr) = rule.value
    [] OTHER -> FALSE

\* C18: for every element a batch adds and every rule, matchesRule returns a
\* boolean, and it is true iff the reference of the rule's kind holds.
C18_MatchesEqualsReference ==
  [][DeliverStep =>
       \A n \in AddedNow : \A i \in RuleIndices :
         matchesRule(n, hideRules[i]) = JsBoolean(RefMatches(n, hideRules[i]))]_vars

\* C19: for every element a batch adds and every rule, the descendant sweep
\* for the rule hides exactly the proper descendants that matchesRule accepts.
C19_DescendantSweepAgreesWithSelfCheck ==
  [][DeliverStep =>
       \A n \in AddedNow : \A i \in RuleIndices :
         hideDescendants(n, hideRules[i]).hide =
           {d \in Descendants(n) : ToBoolean(matchesRule(d, hideRules[i]))}]_vars

\* C20: for every element a batch adds, hideElementsInNode hides exactly the
\* elements of its subtree that hideAllElements, run at that moment, would hide.
C20_IncrementalEqualsSweepOnSubtree ==
  [][DeliverStep =>
       \A n \in AddedNow :
         hideElementsInNode(n).hide = hideAllElements.hide \cap Subtree(n)]_vars
====
